---- MODULE Spec2Model ----
(***************************************************************************)
(* The attention decoding loops of AttentionSeq2seq (chainer):             *)
(* construction, _init_decoder_state, _decode_step, _decode_train,         *)
(* decode, _decode_infer_greedy, _decode_infer_beam and decode_ctc; and    *)
(* the training loop of TestHierarchicalAttention.check.                   *)
(*                                                                         *)
(* Tensors are modelled by what the loops can observe of them:             *)
(*   - a token column is a sequence of batch_size class indices;           *)
(*   - a decoder output / context vector / attention-weight row is the     *)
(*     sequence of token columns the recurrent state had consumed when it  *)
(*     was produced (<<>> is the all-zero initial tensor);                 *)
(*   - logits carry the argmax column, drawn from the output layer's       *)
(*     classes, and the (dec_out, context_vec) pair they were computed     *)
(*     from;                                                               *)
(*   - the scheduled-sampling probability is a binary64 float, carried by  *)
(*     its significand bits and exponent.                                  *)
(***************************************************************************)
EXTENDS Integers, Sequences, FiniteSets, TLC

\* ---------------------------------------------------------------- bounds
MaxClasses == 1        \* batches are decoded with num_classes in 1..MaxClasses
MaxBeamClasses == 2    \* single utterances with num_classes in 1..MaxBeamClasses
MaxEmbeddingDim == 1   \* embedding_dim is 0 (one-hot) or MaxEmbeddingDim
MaxBatch == 2          \* batch_size B ranges over 1..MaxBatch
MaxTimeIn == 2         \* T_in ranges over 1..MaxTimeIn
MaxDecodeLen == 3      \* greedy: max_decode_len ranges over 1..MaxDecodeLen
MaxBeamWidth == 2      \* beam_width ranges over 0..MaxBeamWidth
MaxBeamDecodeLen == 3  \* beam search: max_decode_len ranges over 1..MaxBeamDecodeLen
MaxLabelLen == 3       \* training: T_out ranges over 2..MaxLabelLen
MaxStep == 2           \* training calls are counted up to MaxStep
MaxRampStep == 3       \* the ramp: ramp_max_step and training calls up to MaxRampStep

VARIABLES
    model,             \* the constructed AttentionSeq2seq (its attributes)
    pc,                \* "idle", "greedy", "beam_utt", "beam", "train", "returned", "raised"
    args,              \* arguments of the running call
    t,                 \* loop counter of the running decoding loop
    y,                 \* greedy: the token column fed next
    dec_state,         \* recurrent state of the running loop
    context_vec,       \* context vector of the running loop
    att_weights_step,  \* attention weights of the running loop
    best_hyps,         \* greedy: emitted columns; beam: one hypothesis per finished utterance
    logits,            \* train: the logits steps appended so far
    i_batch,           \* beam: utterance index
    i_beam,            \* beam: index into beam
    beam,              \* beam: live hypotheses
    new_beam,          \* beam: candidates of the running timestep
    complete,          \* beam: finished hypotheses
    last,              \* what the most recent timestep consumed and produced
    ret,               \* value returned by the last call
    exc                \* exception raised by the last call ("None" if none)

vars == <<model, pc, args, t, y, dec_state, context_vec, att_weights_step,
          best_hyps, logits, i_batch, i_beam, beam, new_beam, complete,
          last, ret, exc>>

loopVars == <<t, y, dec_state, context_vec, att_weights_step, best_hyps, logits>>
beamVars == <<i_batch, i_beam, beam, new_beam, complete>>

\* ------------------------------------------------------------- helpers
Min(a, b) == IF a <= b THEN a ELSE b

Max(a, b) == IF a >= b THEN a ELSE b

\* ---------------------------------------------------------------- floats
\* A Python float (IEEE 754 binary64, round to nearest, ties to even) that is
\* >= 0: mant holds the MantBits significand bits, most significant (a 1)
\* first, and the value is mant * 2^exp; zero has the empty significand.
MantBits == 53

FloatZero == [mant |-> <<>>, exp |-> 0]

FloatPos(x) == x.mant # <<>>

Zeros(n) == [i \in 1..n |-> 0]

\* The binary digits of n >= 1, most significant first.
RECURSIVE IntBits(_)
IntBits(n) == IF n = 0 THEN <<>> ELSE Append(IntBits(n \div 2), n % 2)

StripZeros(bits) ==
    IF \A i \in 1..Len(bits) : bits[i] = 0 THEN <<>>
    ELSE LET first == CHOOSE i \in 1..Len(bits) :
                          bits[i] = 1 /\ \A j \in 1..(i - 1) : bits[j] = 0
         IN  SubSeq(bits, first, Len(bits))

\* bits + 1 on a significand that is not all ones.
IncBits(bits) ==
    LET z == CHOOSE i \in 1..Len(bits) :
                 bits[i] = 0 /\ \A j \in (i + 1)..Len(bits) : bits[j] = 1
    IN  [i \in 1..Len(bits) |-> IF i < z THEN bits[i] ELSE IF i = z THEN 1 ELSE 0]

\* The float nearest to bits * 2^exp (plus a nonzero fraction of the last
\* place when sticky), for bits with a leading 1.
RoundFloat(bits, sticky, exp) ==
    LET n == Len(bits)
    IN  IF n <= MantBits
        THEN [mant |-> bits \o Zeros(MantBits - n), exp |-> exp - (MantBits - n)]
        ELSE LET keep == SubSeq(bits, 1, MantBits)
                 half == bits[MantBits + 1] = 1
                 rest == sticky \/ \E i \in (MantBits + 2)..n : bits[i] = 1
                 up == half /\ (rest \/ keep[MantBits] = 1)
                 e == exp + (n - MantBits)
             IN  IF ~up THEN [mant |-> keep, exp |-> e]
                 ELSE IF \A i \in 1..MantBits : keep[i] = 1
                 THEN [mant |-> <<1>> \o Zeros(MantBits - 1), exp |-> e + 1]
                 ELSE [mant |-> IncBits(keep), exp |-> e]

\* The number a digit sequence stands for (at most 30 digits).
RECURSIVE BitsToInt(_)
BitsToInt(bits) ==
    IF bits = <<>> THEN 0
    ELSE 2 * BitsToInt(SubSeq(bits, 1, Len(bits) - 1)) + bits[Len(bits)]

\* The digits of n, padded with leading zeros to width w.
PadBits(n, w) == LET b == IntBits(n) IN Zeros(w - Len(b)) \o b

\* The digits of bits * k + carry, computed w digits at a time from the
\* least significant end, in front of acc.
RECURSIVE MulBits(_, _, _, _, _)
MulBits(bits, w, k, carry, acc) ==
    LET n == Len(bits)
    IN  IF n <= w THEN IntBits(BitsToInt(bits) * k + carry) \o acc
        ELSE LET v == BitsToInt(SubSeq(bits, n - w + 1, n)) * k + carry
                 base == 2 ^ w
             IN  MulBits(SubSeq(bits, 1, n - w), w, k, v \div base,
                         PadBits(v % base, w) \o acc)

\* Long division of bits by d from digit i on: quotient digits and remainder.
RECURSIVE DivBits(_, _, _, _, _)
DivBits(bits, i, d, r, acc) ==
    IF i > Len(bits) THEN [q |-> acc, r |-> r]
    ELSE LET v == 2 * r + bits[i]
         IN  DivBits(bits, i + 1, d, v % d, Append(acc, v \div d))

\* float(n) for an int n >= 0.
FloatOfInt(n) == IF n = 0 THEN FloatZero ELSE RoundFloat(IntBits(n), FALSE, 0)

\* x * k for a float x and an int k >= 0.
FloatMulInt(x, k) ==
    IF ~FloatPos(x) \/ k = 0 THEN FloatZero
    ELSE RoundFloat(MulBits(x.mant, 16, k, 0, <<>>), FALSE, x.exp)

\* x / d for a float x and an int d >= 1 (true division).
FloatDivInt(x, d) ==
    IF ~FloatPos(x) THEN FloatZero
    ELSE LET guard == Len(IntBits(d)) + 2
             res == DivBits(x.mant \o Zeros(guard), 1, d, 0, <<>>)
         IN  RoundFloat(StripZeros(res.q), res.r # 0, x.exp - guard)

\* a < b
FloatLess(a, b) ==
    IF ~FloatPos(b) THEN FALSE
    ELSE IF ~FloatPos(a) THEN TRUE
    ELSE \/ a.exp < b.exp
         \/ /\ a.exp = b.exp
            /\ \E i \in 1..MantBits :
                   a.mant[i] < b.mant[i] /\ \A j \in 1..(i - 1) : a.mant[j] = b.mant[j]

\* min(a, b)
FloatMin(a, b) == IF FloatLess(b, a) THEN b ELSE a

\* The float num / den of two ints (den > 0).
Frac(num, den) == FloatDivInt(FloatOfInt(num), den)

FloatOne == Frac(1, 1)

\* Python's seq[start:stop] on a sequence of length n, as 0-based indices.
PyIndex(i, n) == IF i < 0 THEN Max(n + i, 0) ELSE Min(i, n)

PySlice(n, start, stop) ==
    LET lo == PyIndex(start, n)
        hi == PyIndex(stop, n)
    IN  [k \in 1..Max(hi - lo, 0) |-> lo + k - 1]

\* Python's seq[:k] for k >= 0.
Take(s, k) == SubSeq(s, 1, Min(k, Len(s)))

NoStep == [kind |-> "none"]

\* The recurrent state of a loop that is not running.
NoState == [h_0 |-> [op |-> "unset", frames |-> <<>>], c_0 |-> "unset", fed |-> <<>>]

\* ----------------------------------------------------------- constructor
\* Mutant: the output layer keeps the <SOS> class.
FcOutWithSos(num_classes) == num_classes

\* self.fc = LinearND(decoder_num_units, self.num_classes - 1): <SOS> is removed.
FcOut(num_classes) == num_classes - 1

\* __init__: the attributes of the constructed model, or the exception raised.
\* Mutant: init_dec_state is not validated.
InitDecStateAny(init_dec_state) == TRUE

\* init_dec_state in ['zero', 'mean', 'final']
InitDecStateValid(init_dec_state) == init_dec_state \in {"zero", "mean", "final"}

AttentionSeq2seq(encoder_type, decoder_type, embedding_dim, num_classes, init_dec_state, ctc_loss_weight, scheduled_sampling_prob, scheduled_sampling_ramp_max_step) ==
    LET decoder_input == IF embedding_dim = 0 THEN "onehot" ELSE "embedding"
        raised ==
            IF ~InitDecStateValid(init_dec_state) THEN "ValueError"
            ELSE IF FloatPos(scheduled_sampling_prob)
                    /\ scheduled_sampling_ramp_max_step = 0 THEN "ValueError"
            ELSE IF encoder_type \notin {"lstm", "gru", "rnn", "cnn"}
                 THEN "NotImplementedError"
            ELSE "None"
    IN  [ exc |-> raised,
          encoder_type |-> encoder_type,
          decoder_type |-> decoder_type,
          embedding_dim |-> embedding_dim,
          num_classes |-> num_classes + 2,
          sos_index |-> num_classes + 1,
          eos_index |-> num_classes,
          decoder_input |-> decoder_input,
          init_dec_state |-> init_dec_state,
          sample_prob |-> scheduled_sampling_prob,
          _sample_prob |-> scheduled_sampling_prob,
          sample_ramp_max_step |-> scheduled_sampling_ramp_max_step,
          _step |-> 0,
          ctc_loss_weight |-> ctc_loss_weight,
          fc |-> FcOut(num_classes + 2),
          blank_index |-> IF raised = "None" /\ ctc_loss_weight > 0
                          THEN <<0, 0>> ELSE <<>>,
          layers |->
              IF raised # "None" THEN {}
              ELSE {"encoder", "decoder", "attend", "proj_layer", "fc"}
                   \cup (IF decoder_input = "embedding" THEN {"embed"} ELSE {})
                   \cup (IF ctc_loss_weight > 0
                         THEN {"fc_ctc", "_decode_ctc_greedy_np",
                               "_decode_ctc_beam_np"}
                         ELSE {}) ]

\* ------------------------------------------------- _init_decoder_state
NoneState == [op |-> "None", frames |-> <<>>]

\* enc_out[:, -2:-1, :]
FinalSlice(T_in) == PySlice(T_in, -2, -1)

\* h_0 and the decoder state built from it; enc_out is [B, T_in, units].
_init_decoder_state(m, enc_out) ==
    LET h_0 ==
            IF m.init_dec_state = "zero" \/ m.encoder_type # m.decoder_type
            THEN NoneState
            ELSE IF m.init_dec_state = "mean"
                 THEN [op |-> "mean", frames |-> PySlice(enc_out.T_in, 0, enc_out.T_in)]
                 ELSE [op |-> "slice", frames |-> FinalSlice(enc_out.T_in)]
    IN  [h_0 |-> h_0,
         c_0 |-> IF m.decoder_type = "lstm" THEN "None" ELSE "absent",
         fed |-> <<>>]

\* ------------------------------------------------ layers (not under src/)
\* self.embed: an embedding of each token of the column.
embed(col) == [emb |-> col]

\* self.decoder: advance the recurrent state by one input.
decoder(dec_in, state) ==
    LET hist == Append(state.fed, dec_in.y.emb)
    IN  [dec_out |-> hist, dec_state |-> [state EXCEPT !.fed = hist]]

\* self.attend: context vector and attention weights for the query dec_out.
attend(enc_out, dec_out, att_prev) ==
    [context_vec |-> dec_out, att_weights_step |-> dec_out]

\* ------------------------------------------------------- _decode_step
\* Mutant: attention is computed before the recurrent state is advanced,
\* from the previous decoder output.
_decode_step_attend_first(enc_out, dec_in, state, att_prev) ==
    LET a == attend(enc_out, state.fed, att_prev)
        d == decoder([dec_in EXCEPT !.ctx = a.context_vec], state)
    IN  [dec_out |-> d.dec_out, dec_state |-> d.dec_state,
         context_vec |-> a.context_vec,
         att_weights_step |-> a.att_weights_step,
         query |-> state.fed,
         ops |-> <<"attend", "decoder">>]

_decode_step(enc_out, dec_in, state, att_prev) ==
    LET d == decoder(dec_in, state)
        a == attend(enc_out, d.dec_out, att_prev)
    IN  [dec_out |-> d.dec_out, dec_state |-> d.dec_state,
         context_vec |-> a.context_vec,
         att_weights_step |-> a.att_weights_step,
         query |-> d.dec_out,
         ops |-> <<"decoder", "attend">>]

\* The record of one timestep: what was fed, what each stage read and wrote.
StepRecord(kind, step, hyp, src, y_fed, ctx_in, state_in, att_in, s, y_out) ==
    [kind |-> kind, t |-> step, hyp |-> hyp, src |-> src, y_fed |-> y_fed,
     ctx_in |-> ctx_in, state_in |-> state_in, att_in |-> att_in,
     query |-> s.query, dec_out |-> s.dec_out, ctx_out |-> s.context_vec,
     att_out |-> s.att_weights_step,
     fc_in |-> [dec_out |-> s.dec_out, ctx |-> s.context_vec],
     ops |-> Append(s.ops, "fc"), y_out |-> y_out]

\* The argmax columns a batch of logits over `classes` outputs can have.
ArgmaxCols(B, classes) == [1..B -> 0..(classes - 1)]

\* ---------------------------------------------------------------- decode
EncOut(a) == [B |-> a.B, T_in |-> a.T_in]

\* decode(): dispatch on beam_width, then the prologue of the chosen loop.
decode(B, T_in, beam_width, max_decode_len) ==
    /\ pc = "idle"
    /\ args' = [fn |-> "decode", B |-> B, T_in |-> T_in,
                beam_width |-> beam_width, max_decode_len |-> max_decode_len]
    /\ ret' = <<>>
    /\ exc' = "None"
    /\ last' = NoStep
    /\ t' = 0
    /\ logits' = <<>>
    /\ best_hyps' = <<>>
    /\ IF beam_width = 1
       THEN /\ pc' = "greedy"
            /\ dec_state' = _init_decoder_state(model, [B |-> B, T_in |-> T_in])
            /\ att_weights_step' = <<>>
            /\ context_vec' = <<>>
            /\ y' = [b \in 1..B |-> model.sos_index]
       ELSE /\ pc' = "beam_utt"
            /\ dec_state' = NoState
            /\ att_weights_step' = <<>>
            /\ context_vec' = <<>>
            /\ y' = <<>>
    /\ i_batch' = 0
    /\ i_beam' = 0
    /\ beam' = <<>>
    /\ new_beam' = <<>>
    /\ complete' = <<>>
    /\ UNCHANGED model

\* The column fed at the next step is the argmax column just emitted.
GreedyNextInput(y_out) == y_out

\* Mutant: break as soon as any utterance emits <EOS>.
GreedyBreakAny(y_out, eos) == \E b \in DOMAIN y_out : y_out[b] = eos

\* sum(y.data == eos)[0] == len(y)
GreedyBreak(y_out, eos) ==
    Cardinality({b \in DOMAIN y_out : y_out[b] = eos}) = Len(y_out)

\* best_hyps after F.concat(axis=1): one row per utterance.
Rows(cols, B) == [b \in 1..B |-> [k \in 1..Len(cols) |-> cols[k][b]]]

\* One iteration of the loop of _decode_infer_greedy, and the return when it
\* is the last one.
_decode_infer_greedy ==
    /\ pc = "greedy"
    /\ t < args.max_decode_len
    /\ IF "embed" \notin model.layers
       THEN /\ pc' = "raised"
            /\ exc' = "AttributeError"
            /\ UNCHANGED <<loopVars, last, ret>>
       ELSE \E y_out \in ArgmaxCols(args.B, model.fc) :
            LET dec_in == [y |-> embed(y), ctx |-> context_vec]
                s == _decode_step(EncOut(args), dec_in, dec_state, att_weights_step)
                hyps == Append(best_hyps, y_out)
                stop == GreedyBreak(y_out, model.eos_index)
                        \/ t + 1 = args.max_decode_len
            IN  /\ last' = StepRecord("greedy", t, <<>>, "prev", y, context_vec,
                                      dec_state, att_weights_step, s, y_out)
                /\ dec_state' = s.dec_state
                /\ context_vec' = s.context_vec
                /\ att_weights_step' = s.att_weights_step
                /\ y' = GreedyNextInput(y_out)
                /\ best_hyps' = hyps
                /\ t' = t + 1
                /\ pc' = IF stop THEN "returned" ELSE "greedy"
                /\ ret' = IF stop THEN Rows(hyps, args.B) ELSE ret
                /\ UNCHANGED <<logits, exc>>
    /\ UNCHANGED <<model, args, beamVars>>

\* --------------------------------------------------- _decode_infer_beam
\* A log_softmax row over K classes whose most probable class is `peak`;
\* the others follow in index order.  Probabilities are w[c] / W with
\* distinct weights, so argsort has no ties.
Ranking(K, peak) ==
    [r \in 1..K |-> IF r = 1 THEN peak ELSE IF r - 2 < peak THEN r - 2 ELSE r - 1]

LogProbs(K, rows) ==
    { [rank |-> Ranking(K, peak),
       w |-> [c \in 0..(K - 1) |->
                 K + 1 - (CHOOSE r \in 1..K : Ranking(K, peak)[r] = c)],
       rows |-> rows] : peak \in 0..(K - 1) }

\* Sum of the weights of a row: probability 1.
TotalWeight(K) == (K * (K + 1)) \div 2

\* sorted(cands, key=score, reverse=True): stable, descending.
RECURSIVE InsertDesc(_, _)
InsertDesc(x, s) ==
    IF s = <<>> THEN <<x>>
    ELSE IF Head(s).score < x.score THEN <<x>> \o s
    ELSE <<Head(s)>> \o InsertDesc(x, Tail(s))

RECURSIVE SortDesc(_)
SortDesc(s) ==
    IF s = <<>> THEN <<>>
    ELSE InsertDesc(s[Len(s)], SortDesc(SubSeq(s, 1, Len(s) - 1)))

SelectEos(s, eos) == SelectSeq(s, LAMBDA c : c.hyp[Len(c.hyp)] = eos)

SelectNotEos(s, eos) == SelectSeq(s, LAMBDA c : c.hyp[Len(c.hyp)] # eos)

\* Start of one iteration of the loop over utterances: the initial beam.
\* Scores are kept as W * exp(score), so LOG_1 = 0 is W and logaddexp is +.
beam_utt ==
    /\ pc = "beam_utt"
    /\ i_batch < args.B
    /\ LET ds == _init_decoder_state(model, [B |-> 1, T_in |-> args.T_in])
       IN  /\ dec_state' = ds
           /\ att_weights_step' = <<>>
           /\ context_vec' = <<>>
           /\ complete' = <<>>
           /\ beam' = << [hyp |-> <<>>, score |-> TotalWeight(model.fc),
                          dec_state |-> ds, att_weights_step |-> <<>>,
                          context_vec |-> <<>>] >>
    /\ t' = 0
    /\ i_beam' = 0
    /\ new_beam' = <<>>
    /\ pc' = "beam"
    /\ UNCHANGED <<model, args, y, best_hyps, logits, i_batch, last, ret, exc>>

\* Mutant: every hypothesis is extended from the first hypothesis's state.
BeamParentFirst(i) == beam[1]

\* The hypothesis whose state, context and attention weights are extended.
BeamParent(i) == beam[i + 1]

\* log_probs[i_batch, i]: the row index used for the lookup.
LogProbRow(i) == i

\* One iteration of the loop over beam: extend hypothesis i_beam.
beam_extend ==
    /\ pc = "beam"
    /\ i_beam < Len(beam)
    /\ IF "embed" \notin model.layers
       THEN /\ pc' = "raised"
            /\ exc' = "AttributeError"
            /\ UNCHANGED <<dec_state, context_vec, att_weights_step,
                           new_beam, i_beam, last, ret>>
       ELSE \E log_probs \in LogProbs(model.fc,
                                      Len(PySlice(args.B, i_batch, i_batch + 1))) :
            LET parent == BeamParent(i_beam)
                here == beam[i_beam + 1]
                y_prev == IF t > 0 THEN here.hyp[Len(here.hyp)]
                                   ELSE model.sos_index
                dec_in == [y |-> embed(<<y_prev>>), ctx |-> parent.context_vec]
                s == _decode_step([B |-> 1, T_in |-> args.T_in], dec_in,
                                  parent.dec_state, parent.att_weights_step)
                indices_topk == Take(log_probs.rank, args.beam_width)
                row == LogProbRow(i_batch)
                cands == [k \in 1..Len(indices_topk) |->
                            [hyp |-> Append(here.hyp, indices_topk[k]),
                             score |-> here.score + log_probs.w[indices_topk[k]],
                             dec_state |-> s.dec_state,
                             att_weights_step |-> s.att_weights_step,
                             context_vec |-> s.context_vec]]
            IN  /\ last' = StepRecord("beam", t, here.hyp,
                                      IF t > 0 THEN "prev" ELSE "sos",
                                      <<y_prev>>, parent.context_vec,
                                      parent.dec_state, parent.att_weights_step,
                                      s, indices_topk)
                /\ dec_state' = s.dec_state
                /\ context_vec' = s.context_vec
                /\ att_weights_step' = s.att_weights_step
                /\ IF Len(indices_topk) > 0 /\ row >= log_probs.rows
                   THEN /\ pc' = "raised"
                        /\ exc' = "IndexError"
                        /\ UNCHANGED <<new_beam, i_beam, ret>>
                   ELSE /\ new_beam' = new_beam \o cands
                        /\ i_beam' = i_beam + 1
                        /\ UNCHANGED <<pc, exc, ret>>
    /\ UNCHANGED <<model, args, t, y, best_hyps, logits, i_batch, beam, complete>>

\* End of one timestep: sort, collect complete hypotheses, prune; when the
\* loop over timesteps ends, append the utterance's best hypothesis and, after
\* the last utterance, return.
beam_prune ==
    /\ pc = "beam"
    /\ i_beam = Len(beam)
    /\ LET eos == model.eos_index
           bw == args.beam_width
           sorted == SortDesc(new_beam)
           complete1 == complete \o SelectEos(Take(sorted, bw), eos)
           brk == Len(complete1) >= bw
           beam1 == IF brk THEN beam ELSE Take(SelectNotEos(sorted, eos), bw)
           complete2 == IF brk THEN Take(complete1, bw) ELSE complete1
           done == brk \/ t + 1 = args.max_decode_len
           final == IF Len(complete2) = 0 THEN beam1 ELSE SortDesc(complete2)
       IN  IF ~done
           THEN /\ beam' = beam1
                /\ complete' = complete2
                /\ new_beam' = <<>>
                /\ i_beam' = 0
                /\ t' = t + 1
                /\ UNCHANGED <<pc, best_hyps, i_batch, ret, exc>>
           ELSE IF Len(final) = 0
           THEN /\ pc' = "raised"
                /\ exc' = "IndexError"
                /\ UNCHANGED <<beam, complete, new_beam, i_beam, t, best_hyps,
                               i_batch, ret>>
           ELSE /\ beam' = beam1
                /\ complete' = final
                /\ new_beam' = sorted
                /\ best_hyps' = Append(best_hyps, final[1].hyp)
                /\ i_batch' = i_batch + 1
                /\ pc' = IF i_batch + 1 = args.B THEN "returned" ELSE "beam_utt"
                /\ ret' = IF i_batch + 1 = args.B
                          THEN Append(best_hyps, final[1].hyp) ELSE ret
                /\ UNCHANGED <<i_beam, t, exc>>
    /\ UNCHANGED <<model, args, y, dec_state, context_vec, att_weights_step,
                   logits, last>>

\* ------------------------------------------------ specification: decoding
DefaultProb == Frac(0, 1)

DecodeModels ==
    { AttentionSeq2seq("lstm", "lstm", e, n, "final", 0, DefaultProb, 0) :
        e \in {0, MaxEmbeddingDim}, n \in 1..MaxBeamClasses }

Idle ==
    /\ pc = "idle"
    /\ args = [fn |-> "none"]
    /\ t = 0
    /\ y = <<>>
    /\ dec_state = NoState
    /\ context_vec = <<>>
    /\ att_weights_step = <<>>
    /\ best_hyps = <<>>
    /\ logits = <<>>
    /\ i_batch = 0
    /\ i_beam = 0
    /\ beam = <<>>
    /\ new_beam = <<>>
    /\ complete = <<>>
    /\ last = NoStep
    /\ ret = <<>>
    /\ exc = "None"

Init ==
    /\ model \in DecodeModels
    /\ Idle

\* The call is over (it returned or raised): its locals are gone, the model
\* object stays.
finish ==
    /\ pc \in {"returned", "raised"}
    /\ pc' = "idle"
    /\ args' = [fn |-> "none"]
    /\ t' = 0
    /\ y' = <<>>
    /\ dec_state' = NoState
    /\ context_vec' = <<>>
    /\ att_weights_step' = <<>>
    /\ best_hyps' = <<>>
    /\ logits' = <<>>
    /\ i_batch' = 0
    /\ i_beam' = 0
    /\ beam' = <<>>
    /\ new_beam' = <<>>
    /\ complete' = <<>>
    /\ last' = NoStep
    /\ ret' = <<>>
    /\ exc' = "None"
    /\ UNCHANGED model

\* The decoding lengths tried for a beam width.
DecodeLens(beam_width) ==
    1..(IF beam_width = 1 THEN MaxDecodeLen ELSE MaxBeamDecodeLen)

\* The batch sizes tried on a model: several utterances on the small
\* vocabularies, one utterance on the larger ones.
BatchSizes(m) == 1..(IF m.eos_index <= MaxClasses THEN MaxBatch ELSE 1)

Decode ==
    \E B \in BatchSizes(model), beam_width \in 0..MaxBeamWidth :
        \E max_decode_len \in DecodeLens(beam_width) :
            decode(B, MaxTimeIn, beam_width, max_decode_len)

Next ==
    \/ Decode
    \/ _decode_infer_greedy
    \/ beam_utt
    \/ beam_extend
    \/ beam_prune
    \/ finish

Spec == Init /\ [][Next]_vars

\* ------------------------------------------------ __call__, _decode_train
\* Labels of one utterance: <SOS>, T_out - 2 class labels, <EOS>.
LabelRow(m, b, T_out) ==
    [k \in 1..T_out |->
        IF k = 1 THEN m.sos_index
        ELSE IF k = T_out THEN m.eos_index
        ELSE (b + k) % m.eos_index]

Labels(m, B, T_out) == [b \in 1..B |-> LabelRow(m, b, T_out)]

\* ys[:, t:t + 1] for a 0-based t.
YsCol(ys, step) == [b \in 1..Len(ys) |-> ys[b][step + 1]]

\* The outcomes random.random() < p can have for a probability p.
RandomLess(p) == {r \in BOOLEAN : (r => FloatPos(p)) /\ (~r => FloatLess(p, FloatOne))}

\* __call__: wrap, encode, and the prologue of _decode_train.
call(B, T_in, T_out, is_eval) ==
    /\ pc = "idle"
    /\ args' = [fn |-> "__call__", B |-> B, T_in |-> T_in, T_out |-> T_out,
                is_eval |-> is_eval, ys |-> Labels(model, B, T_out)]
    /\ pc' = "train"
    /\ dec_state' = _init_decoder_state(model, [B |-> B, T_in |-> T_in])
    /\ att_weights_step' = <<>>
    /\ context_vec' = <<>>
    /\ logits' = <<>>
    /\ t' = 0
    /\ y' = <<>>
    /\ best_hyps' = <<>>
    /\ last' = NoStep
    /\ ret' = <<>>
    /\ exc' = "None"
    /\ i_batch' = 0
    /\ i_beam' = 0
    /\ beam' = <<>>
    /\ new_beam' = <<>>
    /\ complete' = <<>>
    /\ UNCHANGED model

\* Mutant: scheduled sampling may start before any training call completed.
IsSampleNoStepGuard(m, step, r) == FloatPos(m.sample_prob) /\ step > 0 /\ r

\* is_sample, with r the outcome of random.random() < self._sample_prob.
IsSample(m, step, r) ==
    FloatPos(m.sample_prob) /\ step > 0 /\ m._step > 0 /\ r

\* range(labels_max_seq_len - 1)
TrainSteps(T_out) == T_out - 1

\* The tail of __call__ in training mode: count the step and update the
\* probability of scheduled sampling.
UpdateStep(m) ==
    LET k == m._step + 1
    IN  [m EXCEPT
           !._step = k,
           !._sample_prob =
               IF FloatPos(m.sample_prob)
               THEN FloatMin(m.sample_prob,
                             FloatMulInt(FloatDivInt(m.sample_prob,
                                                     m.sample_ramp_max_step), k))
               ELSE @]

\* One iteration of the loop of _decode_train; after the last one, the rest
\* of __call__.
_decode_train ==
    /\ pc = "train"
    /\ t < TrainSteps(args.T_out)
    /\ IF "embed" \notin model.layers
       THEN /\ pc' = "raised"
            /\ exc' = "AttributeError"
            /\ UNCHANGED <<model, loopVars, last, ret>>
       ELSE \E r \in RandomLess(model._sample_prob),
               y_out \in ArgmaxCols(args.B, model.fc) :
            LET is_sample == IsSample(model, t, r)
                y_prev == IF is_sample THEN logits[Len(logits)].argmax
                                       ELSE YsCol(args.ys, t)
                dec_in == [y |-> embed(y_prev), ctx |-> context_vec]
                s == _decode_step(EncOut(args), dec_in, dec_state, att_weights_step)
                logits_step == [argmax |-> y_out,
                                from |-> [dec_out |-> s.dec_out,
                                          ctx |-> s.context_vec]]
                all == Append(logits, logits_step)
                done == t + 1 = TrainSteps(args.T_out)
            IN  /\ last' = StepRecord("train", t, <<>>,
                                      IF is_sample THEN "sample" ELSE "teacher",
                                      y_prev, context_vec, dec_state,
                                      att_weights_step, s, y_out)
                /\ dec_state' = s.dec_state
                /\ context_vec' = s.context_vec
                /\ att_weights_step' = s.att_weights_step
                /\ logits' = all
                /\ t' = t + 1
                /\ pc' = IF done THEN "returned" ELSE "train"
                /\ ret' = IF done THEN all ELSE ret
                /\ model' = IF done /\ ~args.is_eval THEN UpdateStep(model)
                                                     ELSE model
                /\ UNCHANGED <<y, best_hyps, exc>>
    /\ UNCHANGED <<args, beamVars>>

\* ------------------------------------------------ specification: training
SamplingConfigs == {<<Frac(0, 1), 0>>, <<Frac(1, 2), 2>>, <<Frac(1, 1), 1>>}

TrainModels ==
    { AttentionSeq2seq("lstm", "lstm", e, n, "final", 0, c[1], c[2]) :
        e \in {0, MaxEmbeddingDim}, n \in 1..MaxClasses, c \in SamplingConfigs }

InitTrain ==
    /\ model \in TrainModels
    /\ Idle

\* Batches are drawn for the smallest vocabulary, single utterances for the
\* larger ones.
TrainBatchSizes(m) == IF m.eos_index = 1 THEN 1..MaxBatch ELSE {1}

Call ==
    \E B \in TrainBatchSizes(model), T_out \in 2..MaxLabelLen, is_eval \in BOOLEAN :
        /\ is_eval \/ model._step < MaxStep
        /\ call(B, MaxTimeIn, T_out, is_eval)

NextTrain ==
    \/ Call
    \/ _decode_train
    \/ finish

SpecTrain == InitTrain /\ [][NextTrain]_vars

\* ------------------------- specification: the ramp of scheduled sampling
RampConfigs ==
    { <<p, m>> : p \in {Frac(1, 2), Frac(9, 10), Frac(1, 1)}, m \in 1..MaxRampStep }

RampModels ==
    { AttentionSeq2seq("lstm", "lstm", MaxEmbeddingDim, 1, "final", 0, c[1], c[2]) :
        c \in RampConfigs }

InitRamp ==
    /\ model \in RampModels
    /\ Idle

\* Calls on one utterance with one target label, up to MaxRampStep of them
\* in training mode.
CallRamp ==
    \E is_eval \in BOOLEAN :
        /\ is_eval \/ model._step < MaxRampStep
        /\ call(1, MaxTimeIn, 2, is_eval)

NextRamp ==
    \/ CallRamp
    \/ _decode_train
    \/ finish

SpecRamp == InitRamp /\ [][NextRamp]_vars

\* --------------------------- specification: the three loops, one utterance
LoopModels ==
    { AttentionSeq2seq("lstm", "lstm", e, n, "final", 0, c[1], c[2]) :
        e \in {0, MaxEmbeddingDim}, n \in 1..MaxClasses,
        c \in {<<Frac(0, 1), 0>>, <<Frac(1, 2), 2>>} }

InitLoops ==
    /\ model \in LoopModels
    /\ Idle

CallOne ==
    \E T_out \in 2..MaxLabelLen, is_eval \in BOOLEAN :
        /\ is_eval \/ model._step < MaxStep
        /\ call(1, MaxTimeIn, T_out, is_eval)

DecodeOne ==
    \E beam_width \in 0..MaxBeamWidth :
        \E max_decode_len \in DecodeLens(beam_width) :
            decode(1, MaxTimeIn, beam_width, max_decode_len)

NextLoops ==
    \/ CallOne
    \/ _decode_train
    \/ DecodeOne
    \/ _decode_infer_greedy
    \/ beam_utt
    \/ beam_extend
    \/ beam_prune
    \/ finish

SpecLoops == InitLoops /\ [][NextLoops]_vars

\* ------------------------------- specification: _init_decoder_state alone
InitDecStates == {"zero", "mean", "final"}

InitStateModels ==
    { AttentionSeq2seq(enc, d, MaxEmbeddingDim, 1, i, 0, Frac(0, 1), 0) :
        enc \in {"lstm", "gru", "rnn"}, d \in {"lstm", "gru"}, i \in InitDecStates }

InitInitState ==
    /\ model \in InitStateModels
    /\ \E B \in 1..MaxBatch, T_in \in 1..MaxTimeIn :
        args = [fn |-> "_init_decoder_state", B |-> B, T_in |-> T_in]
    /\ pc = "idle"
    /\ t = 0
    /\ y = <<>>
    /\ dec_state = NoState
    /\ context_vec = <<>>
    /\ att_weights_step = <<>>
    /\ best_hyps = <<>>
    /\ logits = <<>>
    /\ i_batch = 0
    /\ i_beam = 0
    /\ beam = <<>>
    /\ new_beam = <<>>
    /\ complete = <<>>
    /\ last = NoStep
    /\ ret = <<>>
    /\ exc = "None"

\* Apply _init_decoder_state to the drawn encoder outputs.
init_decoder_state ==
    /\ pc = "idle"
    /\ args.fn = "_init_decoder_state"
    /\ dec_state' = _init_decoder_state(model, EncOut(args))
    /\ pc' = "returned"
    /\ UNCHANGED <<model, args, t, y, context_vec, att_weights_step, best_hyps,
                   logits, beamVars, last, ret, exc>>

NextInitState == init_decoder_state

SpecInitState == InitInitState /\ [][NextInitState]_vars

\* ------------------------------------- specification: __init__, decode_ctc
\* Mutant: the assertion of decode_ctc lets a zero weight through.
AssertCtcNonNegative(m) == m.ctc_loss_weight >= 0

\* assert self.ctc_loss_weight > 0
AssertCtc(m) == m.ctc_loss_weight > 0

\* decode_ctc: the assertion; then the result of _encode, one Variable of
\* B rows, is unpacked into (enc_out, perm_idx), which fails unless B = 2,
\* and enc_out.size() is called on what is not a torch tensor.
decode_ctc(B, T_in, beam_width) ==
    /\ pc = "idle"
    /\ model.exc = "None"
    /\ args' = [fn |-> "decode_ctc", B |-> B, T_in |-> T_in,
                beam_width |-> beam_width]
    /\ pc' = "raised"
    /\ IF ~AssertCtc(model) THEN exc' = "AssertionError"
       ELSE IF B # 2 THEN exc' = "ValueError"
       ELSE exc' \in {"IndexError", "TypeError"}
    /\ UNCHANGED <<model, loopVars, beamVars, last, ret>>

CtorInitDecStates == InitDecStates \cup {"first"}

CtorSamplingConfigs == SamplingConfigs \cup {<<Frac(1, 2), 0>>}

\* The state after AttentionSeq2seq(...) returned or raised.
InitCtor ==
    /\ \E enc \in {"lstm", "cnn", "transformer"}, d \in {"lstm", "gru"},
          e \in {0, MaxEmbeddingDim}, n \in 1..MaxClasses,
          i \in CtorInitDecStates, w \in {-1, 0, 1}, c \in CtorSamplingConfigs :
        /\ args = [fn |-> "__init__", encoder_type |-> enc, decoder_type |-> d,
                   embedding_dim |-> e, num_classes |-> n, init_dec_state |-> i,
                   ctc_loss_weight |-> w, scheduled_sampling_prob |-> c[1],
                   scheduled_sampling_ramp_max_step |-> c[2]]
        /\ model = AttentionSeq2seq(enc, d, e, n, i, w, c[1], c[2])
    /\ pc = IF model.exc = "None" THEN "returned" ELSE "raised"
    /\ exc = model.exc
    /\ t = 0
    /\ y = <<>>
    /\ dec_state = NoState
    /\ context_vec = <<>>
    /\ att_weights_step = <<>>
    /\ best_hyps = <<>>
    /\ logits = <<>>
    /\ i_batch = 0
    /\ i_beam = 0
    /\ beam = <<>>
    /\ new_beam = <<>>
    /\ complete = <<>>
    /\ last = NoStep
    /\ ret = <<>>

DecodeCtc ==
    \E B \in 1..MaxBatch, beam_width \in 1..MaxBeamWidth :
        decode_ctc(B, MaxTimeIn, beam_width)

\* A call on a constructed model is over.
FinishCall == model.exc = "None" /\ finish

NextCtor ==
    \/ DecodeCtc
    \/ FinishCall

SpecCtor == InitCtor /\ [][NextCtor]_vars

\* ------------------- specification: the training loop of the model's test
\* TestHierarchicalAttention.check from "# Train model" on. model holds the
\* mode of the torch module, args the locals of check, last the mode in
\* which the latest operations on the model ran.
max_step == 1000

MaxErrors == 2         \* edit distances 0..MaxErrors on a reference of length 10

\* A local that has not been assigned yet.
NoValue == [unset |-> TRUE]

\* What compute_wer / compute_cer (normalize=True) can return.
ErrorRates == {Frac(d, 10) : d \in 0..MaxErrors}

\* Mutant: evaluation on the steps whose 0-based number is a multiple of 10.
IsEvalStepZeroBased(step) == step % 10 = 0

\* (step + 1) % 10 == 0
IsEvalStep(step) == (step + 1) % 10 = 0

\* ler_sub < 0.1
Converged(ler_sub) == FloatLess(ler_sub, Frac(1, 10))

InitTest ==
    /\ model = [training |-> TRUE]
    /\ \E scheduler \in {"None", "scheduler"} :
        args = [fn |-> "check", scheduler |-> scheduler, step |-> 0,
                ler_pre |-> FloatOfInt(1), ler |-> NoValue, ler_sub |-> NoValue,
                evals |-> 0, low_evals |-> 0, decay_lr |-> 0]
    /\ pc = "loop"
    /\ last = NoStep
    /\ t = 0
    /\ y = <<>>
    /\ dec_state = NoState
    /\ context_vec = <<>>
    /\ att_weights_step = <<>>
    /\ best_hyps = <<>>
    /\ logits = <<>>
    /\ i_batch = 0
    /\ i_beam = 0
    /\ beam = <<>>
    /\ new_beam = <<>>
    /\ complete = <<>>
    /\ ret = <<>>
    /\ exc = "None"

\* The for statement takes the next step, or the loop is exhausted.
NextIteration ==
    IF args.step + 1 < max_step
    THEN /\ pc' = "loop"
         /\ args' = [args EXCEPT !.step = @ + 1]
    ELSE /\ pc' = "done"
         /\ args' = args

\* Lines 142-169: forward pass and loss, backward pass, parameter update.
train_step ==
    /\ pc = "loop"
    /\ last' = [kind |-> "test", op |-> "train", step |-> args.step,
                loss |-> model.training, backward |-> model.training,
                update |-> model.training,
                updater |-> IF args.scheduler # "None" THEN "scheduler.step"
                                                      ELSE "optimizer.step"]
    /\ IF IsEvalStep(args.step)
       THEN pc' = "eval" /\ args' = args
       ELSE NextIteration
    /\ UNCHANGED <<model, loopVars, beamVars, ret, exc>>

\* Mutant: the model stays in training mode for decoding.
model_eval_skipped ==
    /\ pc = "eval"
    /\ pc' = "decode"
    /\ UNCHANGED <<model, args, loopVars, beamVars, last, ret, exc>>

\* model.eval()
model_eval ==
    /\ pc = "eval"
    /\ model' = [model EXCEPT !.training = FALSE]
    /\ pc' = "decode"
    /\ UNCHANGED <<args, loopVars, beamVars, last, ret, exc>>

\* decode_infer, decode_infer_sub and the two error rates.
decode_infer ==
    /\ pc = "decode"
    /\ \E ler \in ErrorRates, ler_sub \in ErrorRates :
        args' = [args EXCEPT !.ler = ler, !.ler_sub = ler_sub,
                             !.evals = @ + 1,
                             !.low_evals = IF Converged(ler_sub) THEN @ + 1 ELSE @]
    /\ last' = [kind |-> "test", op |-> "decode", step |-> args.step,
                decode_infer |-> model.training,
                decode_infer_sub |-> model.training]
    /\ pc' = "train_mode"
    /\ UNCHANGED <<model, loopVars, beamVars, ret, exc>>

\* model.train()
model_train ==
    /\ pc = "train_mode"
    /\ model' = [model EXCEPT !.training = TRUE]
    /\ pc' = "report"
    /\ UNCHANGED <<args, loopVars, beamVars, last, ret, exc>>

\* Lines 206-216: break on convergence, else ler_pre = ler and decay_lr.
converged_or_decay ==
    /\ pc = "report"
    /\ IF Converged(args.ler_sub)
       THEN /\ pc' = "done"
            /\ args' = args
            /\ last' = [kind |-> "test", op |-> "break", step |-> args.step]
       ELSE /\ IF args.step + 1 < max_step THEN pc' = "loop" ELSE pc' = "done"
            /\ args' = [args EXCEPT
                          !.ler_pre = args.ler,
                          !.decay_lr = @ + 1,
                          !.step = IF args.step + 1 < max_step THEN @ + 1 ELSE @]
            /\ last' = [kind |-> "test", op |-> "decay_lr", step |-> args.step,
                        epoch |-> args.step, value |-> args.ler]
    /\ UNCHANGED <<model, loopVars, beamVars, ret, exc>>

NextTest ==
    \/ train_step
    \/ model_eval
    \/ decode_infer
    \/ model_train
    \/ converged_or_decay

SpecTest == InitTest /\ [][NextTest]_vars

\* ================================================================ claims
AllEos(col) == \A b \in DOMAIN col : col[b] = model.eos_index

\* The columns a hypothesis's own recurrent state has consumed: <SOS>, then
\* every token of the hypothesis but the last.
OwnHist(hyp) ==
    [k \in 1..Len(hyp) |-> << IF k = 1 THEN model.sos_index ELSE hyp[k - 1] >>]

\* C1: in every decoding loop a timestep advances the recurrent state once,
\* then computes attention, then emits logits: the decoder input carries the
\* context vector of step t-1 (all-zero context and attention weights at
\* t = 0), attention is queried with the decoder output of step t, and the
\* logits are computed from the decoder output and context vector of step t.
C1_StepOrder ==
    last.kind # "none" =>
        /\ last.ops = <<"decoder", "attend", "fc">>
        /\ Len(last.state_in.fed) = last.t
        /\ last.ctx_in = last.state_in.fed
        /\ last.att_in = last.state_in.fed
        /\ (last.t = 0 => last.ctx_in = <<>> /\ last.att_in = <<>>)
        /\ last.dec_out = Append(last.state_in.fed, last.y_fed)
        /\ last.query = last.dec_out
        /\ last.ctx_out = last.dec_out
        /\ last.att_out = last.dec_out
        /\ last.fc_in = [dec_out |-> last.dec_out, ctx |-> last.ctx_out]
        /\ context_vec = last.ctx_out
        /\ att_weights_step = last.att_out

\* C1 witness: a scheduled-sampling step of _decode_train after step 0.
C1_Witness ==
    /\ last.kind = "train"
    /\ last.src = "sample"
    /\ last.t = 1

\* C2: greedy decoding feeds <SOS> at step 0 and then exactly the argmax
\* column it emitted at the previous step; beam search extends a hypothesis
\* from <SOS> at t = 0 and from that hypothesis's own last token, decoder
\* state, context vector and attention weights at t > 0.
C2_OwnPreviousOutput ==
    /\ last.kind = "greedy" =>
        /\ last.t = 0 => last.y_fed = [b \in 1..args.B |-> model.sos_index]
        /\ last.t > 0 => last.y_fed = best_hyps[last.t]
    /\ last.kind = "beam" =>
        /\ Len(last.hyp) = last.t
        /\ last.y_fed = << IF last.t = 0 THEN model.sos_index
                                        ELSE last.hyp[Len(last.hyp)] >>
        /\ last.state_in.fed = OwnHist(last.hyp)
        /\ last.ctx_in = OwnHist(last.hyp)
        /\ last.att_in = OwnHist(last.hyp)

\* C2 witness: at t = 2 the second hypothesis of the beam, whose state
\* differs from the first one's, has been extended.
C2_Witness ==
    /\ pc = "beam"
    /\ last.kind = "beam"
    /\ last.t = 2
    /\ i_beam = 2
    /\ beam[2].dec_state # beam[1].dec_state
    /\ last.hyp = beam[2].hyp

\* The value of _step the running (or just finished) training call read.
StepAtCall ==
    IF pc = "returned" /\ ~args.is_eval THEN model._step - 1 ELSE model._step

\* C3: _decode_train feeds the ground-truth column ys[:, t] whenever
\* scheduled_sampling_prob = 0, t = 0 or _step = 0; its own previous argmax
\* only otherwise; and it runs T_out - 1 steps, one logits step per label of
\* ys[:, 1:].
C3_TeacherForcing ==
    /\ pc = "train" => t < args.T_out - 1
    /\ last.kind = "train" =>
        /\ (~FloatPos(model.sample_prob) \/ last.t = 0 \/ StepAtCall = 0)
               => last.src = "teacher"
        /\ last.src = "teacher" => last.y_fed = YsCol(args.ys, last.t)
        /\ last.src = "sample" => last.y_fed = logits[last.t].argmax
        /\ Len(logits) = last.t + 1
    /\ (pc = "returned" /\ args.fn = "__call__") =>
        /\ Len(ret) = args.T_out - 1
        /\ last.t = args.T_out - 2

\* C3 witness: a training call on a model with scheduled sampling switched
\* on ran to its end before any training step was counted.
C3_Witness ==
    /\ pc = "returned"
    /\ last.kind = "train"
    /\ last.t > 0
    /\ FloatPos(model.sample_prob)
    /\ StepAtCall = 0
    /\ last.src = "teacher"

\* C4: with num_classes = n the output layer has n + 1 classes, <EOS> is n
\* and <SOS> is n + 1, and every token of every returned hypothesis is in
\* 0..n.
C4_NeverSos ==
    /\ model.fc = model.eos_index + 1
    /\ model.sos_index = model.eos_index + 1
    /\ (pc = "returned" /\ args.fn = "decode") =>
        \A b \in 1..Len(ret) : \A k \in 1..Len(ret[b]) :
            /\ ret[b][k] \in 0..model.eos_index
            /\ ret[b][k] # model.sos_index

\* C4 witness: beam search returned a hypothesis of two tokens.
C4_Witness ==
    /\ pc = "returned"
    /\ args.fn = "decode"
    /\ args.beam_width = 2
    /\ Len(ret[1]) = 2

\* Every utterance has emitted <EOS> at some step <= k of the greedy loop.
EmittedBy(k) ==
    \A b \in 1..args.B : \E j \in 1..k : best_hyps[j][b] = model.eos_index

\* C5: the greedy loop ends at the first step by which every utterance has
\* emitted <EOS>, and runs max_decode_len steps only if some utterance never
\* emitted <EOS>.
C5_StopsWhenAllEmitted ==
    (pc = "returned" /\ args.fn = "decode" /\ args.beam_width = 1) =>
        LET T_out == Len(best_hyps)
        IN  \/ EmittedBy(T_out) /\ \A k \in 1..(T_out - 1) : ~EmittedBy(k)
            \/ T_out = args.max_decode_len /\ ~EmittedBy(T_out)

\* C6: for max_decode_len >= 1 the greedy loop is bounded by max_decode_len
\* and returns hypotheses of one common length T_out in 1..max_decode_len,
\* equal to max_decode_len when no step had every utterance emitting <EOS>.
C6_GreedyLength ==
    /\ pc = "greedy" => t < args.max_decode_len /\ Len(best_hyps) = t
    /\ (pc = "returned" /\ args.fn = "decode" /\ args.beam_width = 1) =>
        LET T_out == Len(best_hyps)
        IN  /\ Len(ret) = args.B
            /\ \A b \in 1..args.B : Len(ret[b]) = T_out
            /\ 1 <= T_out /\ T_out <= args.max_decode_len
            /\ (\A k \in 1..T_out : ~AllEos(best_hyps[k]))
                   => T_out = args.max_decode_len

\* C6 witness: a batch of two ran all three steps although an utterance
\* emitted <EOS> on the way.
C6_Witness ==
    /\ pc = "returned"
    /\ args.fn = "decode"
    /\ args.beam_width = 1
    /\ args.B = 2
    /\ Len(best_hyps) = 3
    /\ args.max_decode_len = 3
    /\ best_hyps[1][1] = model.eos_index

\* C7: decode runs greedy decoding for beam_width = 1 and beam search
\* otherwise, and its result holds one hypothesis per utterance.
C7_OneHypothesisPerUtterance ==
    (args.fn = "decode" /\ model.decoder_input = "embedding") =>
        /\ pc \in {"greedy", "beam_utt", "beam"}
               => (args.beam_width = 1 <=> pc = "greedy")
        /\ pc \in {"returned", "raised"}
               => pc = "returned" /\ Len(ret) = args.B

\* C8: beam search reads log_probs within its bounds for every utterance
\* index, raises no indexing error and returns B hypotheses.
C8_BeamAnyBatch ==
    /\ exc # "IndexError"
    /\ (pc = "returned" /\ args.fn = "decode" /\ args.beam_width # 1)
           => Len(ret) = args.B

\* C9: 'final' with equal encoder and decoder types takes the encoder output
\* at index T_in - 1, 'mean' takes all time steps, and 'zero' or differing
\* types give the zero (None) state.
C9_InitialState ==
    (pc = "returned" /\ args.fn = "_init_decoder_state") =>
        IF model.init_dec_state = "zero"
           \/ model.encoder_type # model.decoder_type
        THEN dec_state.h_0 = NoneState
        ELSE IF model.init_dec_state = "mean"
        THEN dec_state.h_0 = [op |-> "mean",
                              frames |-> [k \in 1..args.T_in |-> k - 1]]
        ELSE dec_state.h_0.frames = << args.T_in - 1 >>

\* C10: a model built with embedding_dim = 0 decodes (training, greedy and
\* beam) from one-hot inputs without needing an embedding layer.
C10_OneHotProceeds ==
    model.decoder_input = "onehot" => exc = "None"

\* A step that returns from a training call of __call__ (is_eval = False).
TrainingReturn == pc = "train" /\ pc' = "returned" /\ ~args.is_eval

\* C11: every training call adds one to _step (nothing else changes _step or
\* _sample_prob), and after the k-th one, with p > 0 and m > 0, _sample_prob
\* is min(p, p * k / m), is at most p, is not below its value after call
\* k - 1, and is p when k >= m.
C11_SampleProbRamp ==
    [][ LET p == model.sample_prob
            m == model.sample_ramp_max_step
            k == model'._step
            new == model'._sample_prob
        IN  IF TrainingReturn
            THEN /\ k = model._step + 1
                 /\ (FloatPos(p) /\ m > 0) =>
                        /\ new = FloatMin(p, FloatDivInt(FloatMulInt(p, k), m))
                        /\ ~FloatLess(p, new)
                        /\ model._step >= 1 => ~FloatLess(new, model._sample_prob)
                        /\ k >= m => new = p
            ELSE /\ model'._step = model._step
                 /\ model'._sample_prob = model._sample_prob ]_vars

\* C12: a constructor call with init_dec_state outside 'zero', 'mean',
\* 'final' raises ValueError, and no encoder, decoder or attention layer (no
\* layer at all) has been created.
C12_InvalidInitDecState ==
    (args.fn = "__init__" /\ args.init_dec_state \notin {"zero", "mean", "final"}) =>
        /\ pc = "raised"
        /\ exc = "ValueError"
        /\ model.layers \cap {"encoder", "decoder", "attend"} = {}
        /\ model.layers = {}

\* C12 witness: an invalid init_dec_state together with an encoder type the
\* constructor would reject later.
C12_Witness ==
    /\ args.fn = "__init__"
    /\ args.init_dec_state = "first"
    /\ args.encoder_type = "transformer"
    /\ pc = "raised"
    /\ exc = "ValueError"

\* C13: decode_ctc fails its assertion when ctc_loss_weight <= 0, and when
\* the assertion passes, fc_ctc and the greedy and beam CTC decoders, both
\* with blank index 0, were created by the constructor.
C13_CtcOnlyJoint ==
    args.fn = "decode_ctc" =>
        /\ model.ctc_loss_weight <= 0 => pc = "raised" /\ exc = "AssertionError"
        /\ exc # "AssertionError" =>
            /\ {"fc_ctc", "_decode_ctc_greedy_np", "_decode_ctc_beam_np"}
                   \subseteq model.layers
            /\ model.blank_index = <<0, 0>>

\* C13 witness: decode_ctc on a joint CTC-attention model got past its
\* assertion.
C13_Witness ==
    /\ args.fn = "decode_ctc"
    /\ model.ctc_loss_weight > 0
    /\ pc = "raised"
    /\ exc \notin {"None", "AssertionError"}

\* C14: in the test's loop every 10th step, and no other, is evaluated; the
\* module is in evaluation mode exactly from model.eval() to model.train(),
\* so loss, backward pass and update run in training mode, both decodes in
\* evaluation mode, and the loop is left in training mode.
C14_EvalModeOnlyForDecode ==
    args.fn = "check" =>
        /\ (last.kind = "test" /\ last.op = "train")
               => last.loss /\ last.backward /\ last.update
        /\ (last.kind = "test" /\ last.op = "decode")
               => /\ ~last.decode_infer /\ ~last.decode_infer_sub
                  /\ (last.step + 1) % 10 = 0
        /\ model.training <=> pc \notin {"decode", "train_mode"}
        /\ pc = "loop" => args.evals = args.step \div 10
        /\ pc \in {"decode", "eval"} => args.evals = (args.step + 1) \div 10 - 1
        /\ pc = "done" => model.training /\ args.evals = (args.step + 1) \div 10

\* C14 witness: the loop ran out of steps after 100 evaluations.
C14_Witness ==
    /\ args.fn = "check"
    /\ pc = "done"
    /\ args.step = max_step - 1
    /\ args.evals = 100
    /\ model.training

\* What C15 says of a state of the test's loop.
C15_State ==
    args.fn = "check" =>
        /\ args.step \in 0..(max_step - 1)
        /\ args.low_evals <= 1
        /\ pc \in {"loop", "eval", "decode"} => args.low_evals = 0
        /\ pc = "done" =>
            \/ /\ last.op = "break"
               /\ (args.step + 1) % 10 = 0
               /\ FloatLess(args.ler_sub, Frac(1, 10))
               /\ args.low_evals = 1
            \/ /\ last.op # "break"
               /\ args.step = max_step - 1
               /\ args.low_evals = 0

\* What C15 says of a step of the test's loop.
C15_Step ==
    args.fn = "check" =>
        IF pc = "report" /\ ~FloatLess(args.ler_sub, Frac(1, 10))
        THEN /\ (args.step + 1) % 10 = 0
             /\ args'.ler_pre = args.ler
             /\ args'.decay_lr = args.decay_lr + 1
        ELSE /\ args'.ler_pre = args.ler_pre
             /\ args'.decay_lr = args.decay_lr

\* C15: the loop takes at most max_step steps and breaks exactly at the
\* first evaluation step (1-based multiple of 10) with ler_sub < 0.1; an
\* evaluation step that does not converge sets ler_pre to ler and calls
\* decay_lr once, and no other step does either.
C15_StopsAtFirstConvergence == []C15_State /\ [][C15_Step]_vars

\* C15 witness: the first evaluation did not converge, the second did.
C15_Witness ==
    /\ args.fn = "check"
    /\ pc = "done"
    /\ last.op = "break"
    /\ args.step = 19
    /\ args.decay_lr = 1
    /\ args.ler_pre = args.ler

====
